---- MODULE Spec2Model ----
(***************************************************************************)
(* Resolution cache and proxy-rotating retry loop of api/index.py.         *)
(*                                                                         *)
(* The asyncio event loop runs one coroutine at a time and switches only   *)
(* at an await that really suspends, so every action of the first part is  *)
(* the code executed between two suspension points of                      *)
(* _fetch_and_cache_info (with the update_proxy_list and get_ydl_opts      *)
(* calls it makes inlined), and the handlers declared with def             *)
(* (delete_cache, list_cache, proxy_stats) are one step each there.  The   *)
(* second part (ArriveScan and after) takes the same code in the steps the *)
(* worker threads of those handlers can interleave with.  Time is the wall *)
(* clock read by time.time(), in whole seconds; a step takes no time and   *)
(* the clock advances between steps, so the second that asyncio.sleep(1)   *)
(* lasts is not enforced.                                                  *)
(***************************************************************************)
EXTENDS Integers, Sequences, FiniteSets, TLC

VARIABLES
    now,               \* the wall clock, time.time()
    CACHE,             \* dict video_id -> (timestamp, data, duration)
    PROXY_LIST,        \* candidate addresses, a list
    WORKING_PROXIES,   \* probe-verified addresses, a list
    FAILED_PROXIES,    \* quarantined addresses, a set
    last_proxy_fetch,  \* time of the last completed refresh
    pc,                \* per request: where the coroutine is suspended
    video_id,          \* per request: argument of _fetch_and_cache_info
    current_time,      \* per request: local current_time of _fetch_and_cache_info
    attempt,           \* per request: loop variable of the retry loop
    current_proxy,     \* per request: proxy of the attempt in flight
    upd,               \* per request: locals of update_proxy_list
    route,             \* per request: the handler that awaits the result
    thr,               \* per worker thread: the def handler it runs and its locals
    cln,               \* per request and thread: locals of its cleanup_cache call
    resp,              \* the response the step just taken sent, if it sent one
    ticks              \* how many times the clock has advanced

vars == <<now, CACHE, PROXY_LIST, WORKING_PROXIES, FAILED_PROXIES,
          last_proxy_fetch, pc, video_id, current_time, attempt,
          current_proxy, upd, route, thr, cln, resp, ticks>>

poolVars == <<PROXY_LIST, WORKING_PROXIES, FAILED_PROXIES, last_proxy_fetch>>

threadVars == <<thr, cln>>

(***************************************************************************)
(* Program constants.                                                      *)
(***************************************************************************)
PROXY_FETCH_INTERVAL == 3600
DEFAULT_CACHE_DURATION == 1800
LONG_CACHE_DURATION == 14400
LONG_FORMAT_COUNT == 12
max_retries == 5
PROBE_COUNT == 10

(***************************************************************************)
(* Bounds of the model.                                                    *)
(***************************************************************************)
MaxTicks == 2
MaxFormats == 3

Procs == {1, 2}
\* worker threads of the pool that runs the handlers declared with def
Threads == {3}
Ids == {"v1", "v2"}
TickSteps == {1800, 12600}

None == "<None>"

Min(a, b) == IF a < b THEN a ELSE b

Range(s) == {s[i] : i \in 1..Len(s)}

(***************************************************************************)
(* Extractor output.  A raw format is the dict yt-dlp returns for one      *)
(* format; a key the dict lacks reads as None through f.get(key).  An      *)
(* optional number is <<>> (None) or <<n>>.                                *)
(***************************************************************************)
RawFormat(i, ext, ac, vc, url, proto, vbr, abr) ==
    [format_id |-> i, ext |-> ext, resolution |-> None, fps |-> <<>>,
     acodec |-> ac, vcodec |-> vc, url |-> url, protocol |-> proto,
     vbr |-> vbr, abr |-> abr, filesize |-> <<>>]

\* the i-th format of a result: muxed, video-only, audio-only, manifest in turn
CatalogFormat(i) ==
    CASE i % 4 = 0 -> RawFormat(i, "mp4", "mp4a", "avc1", "https://cdn/muxed", "https", <<5000>>, <<128>>)
      [] i % 4 = 1 -> RawFormat(i, "mp4", "none", "avc1", "https://cdn/video", "https", <<2000>>, <<>>)
      [] i % 4 = 2 -> RawFormat(i, "m4a", "mp4a", "none", "https://cdn/audio", "https", <<>>, <<128>>)
      [] OTHER     -> RawFormat(i, "mp4", "mp4a", "avc1", "https://cdn/index.m3u8", "m3u8_native", <<>>, <<>>)

\* a storyboard and a format without a retrievable url: both are dropped
StoryboardFormat == RawFormat(0, "mhtml", "none", "none", "https://cdn/sb", "mhtml", <<>>, <<>>)
NoUrlFormat == RawFormat(0, "mp4", "mp4a", "avc1", None, "https", <<>>, <<>>)
EmptyUrlFormat == RawFormat(0, "mp4", "mp4a", "avc1", "", "https", <<>>, <<>>)

RawNone == [isNone |-> TRUE]

RawInfos ==
    { [title |-> "empty", formats |-> <<>>],
      [title |-> "nokey"],
      [title |-> "sparse",
       formats |-> <<StoryboardFormat, NoUrlFormat>>
                   \o [i \in 1..11 |-> CatalogFormat(i)]
                   \o <<EmptyUrlFormat>>],
      [title |-> "rich",
       formats |-> <<StoryboardFormat>>
                   \o [i \in 1..12 |-> CatalogFormat(i)]],
      RawNone }

\* formats for the selectors: video-only (1, 2, 4, 9), muxed (3), audio-only
\* (5, 6), neither (8); a missing bitrate, a zero one and equal ones; a
\* manifest by its url (4, 9), its protocol (4, 6) or its extension (5)
SelectFormats ==
    { RawFormat(1, "mp4", "none", "avc1", "https://cdn/video", "https", <<2000>>, <<>>),
      RawFormat(2, "webm", None, "vp9", "https://cdn/video", "https", <<2000>>, <<>>),
      RawFormat(3, "mp4", "mp4a", "avc1", "https://cdn/muxed", "https", <<5000>>, <<256>>),
      RawFormat(4, "mp4", "none", "avc1", "https://cdn/index.m3u8", "m3u8_native", <<>>, <<>>),
      RawFormat(5, "m3u8", "mp4a", "none", "https://cdn/audio", "https", <<>>, <<128>>),
      RawFormat(6, "webm", "opus", None, "https://cdn/audio", "http_dash_segments", <<>>, <<>>),
      RawFormat(8, "ts", "none", "none", "https://cdn/m3u8/seg.ts", "https", <<9000>>, <<9000>>),
      RawFormat(9, "mp4", None, "avc1", "https://cdn/hls.m3u8?sig=1", "https", <<0>>, <<>>) }

\* every result of at most MaxFormats of them
SelectRaws ==
    { [title |-> "select", formats |-> fs] :
        fs \in UNION { [1..n -> SelectFormats] : n \in 0..MaxFormats } }

\* the texts of the exceptions the extractor raises, as words
AttributeErrorText == <<"NoneType", "object", "has", "no", "attribute", "get">>

ErrorTexts ==
    { <<"Unable", "to", "connect", "to", "Proxy">>,
      <<"Tunnel", "connection", "failed">>,
      <<"Video", "unavailable">> }

\* str.lower() on the words that occur
Lower(w) ==
    CASE w = "Proxy" -> "proxy"
      [] w = "Tunnel" -> "tunnel"
      [] w = "Unable" -> "unable"
      [] w = "Video" -> "video"
      [] w = "NoneType" -> "nonetype"
      [] OTHER -> w

LowerText(msg) == [i \in 1..Len(msg) |-> Lower(msg[i])]

\* w in text
Contains(text, w) == \E i \in 1..Len(text) : text[i] = w

\* dict.get(key, default) on the raw info
GetFormats(raw) == IF "formats" \in DOMAIN raw THEN raw.formats ELSE <<>>

Truthy(v) == v # None /\ v # ""

\* lines 188-203: the normalized formats of a raw info
RECURSIVE NormalizeFormats(_)
NormalizeFormats(fs) ==
    IF fs = <<>> THEN <<>>
    ELSE LET f == Head(fs)
             rest == NormalizeFormats(Tail(fs))
         IN IF Truthy(f.url) /\ f.ext # "mhtml"
            THEN <<[itag |-> f.format_id, ext |-> f.ext,
                    resolution |-> f.resolution, fps |-> f.fps,
                    acodec |-> f.acodec, vcodec |-> f.vcodec, url |-> f.url,
                    protocol |-> f.protocol, vbr |-> f.vbr, abr |-> f.abr]>> \o rest
            ELSE rest

\* lines 205-209
ResponseData(raw, id) ==
    [title |-> raw.title, id |-> id, formats |-> NormalizeFormats(GetFormats(raw))]

\* an off-by-one threshold
CacheDurationStrict(formats) ==
    IF Len(formats) > LONG_FORMAT_COUNT THEN LONG_CACHE_DURATION
    ELSE DEFAULT_CACHE_DURATION

\* lines 211-213
CacheDuration(formats) ==
    IF Len(formats) >= LONG_FORMAT_COUNT THEN LONG_CACHE_DURATION
    ELSE DEFAULT_CACHE_DURATION

(***************************************************************************)
(* Cache.  An entry is the tuple (timestamp, data, duration).              *)
(***************************************************************************)
\* an entry kept through the second its ttl runs out
ExpiredLate(e, t) == t - e[1] > e[3]

\* an entry expired by the default duration whatever its own
ExpiredDefaultTtl(e, t) == t - e[1] >= DEFAULT_CACHE_DURATION

\* line 154: the condition of the sweep
Expired(e, t) == t - e[1] >= e[3]

\* no sweep at all
CleanupCacheSkipped(cache, t) == cache

\* cleanup_cache: the cache without the entries expired at time t
CleanupCache(cache, t) ==
    LET expired == {vid \in DOMAIN cache : Expired(cache[vid], t)}
    IN [vid \in DOMAIN cache \ expired |-> cache[vid]]

\* the test against the default duration instead of the entry's own
CacheHitDefaultTtl(cache, id, t) ==
    /\ id \in DOMAIN cache
    /\ t - cache[id][1] < DEFAULT_CACHE_DURATION

\* line 165-167: the test that serves a cached entry
CacheHit(cache, id, t) ==
    /\ id \in DOMAIN cache
    /\ t - cache[id][1] < cache[id][3]

\* CACHE.setdefault(video_id, entry): the first write stays
StoreIfAbsent(cache, id, e) ==
    [vid \in DOMAIN cache \cup {id} |-> IF vid \in DOMAIN cache THEN cache[vid] ELSE e]

\* CACHE[video_id] = entry
Store(cache, id, e) ==
    [vid \in DOMAIN cache \cup {id} |-> IF vid = id THEN e ELSE cache[vid]]

\* CACHE.clear() in place of the del
RemoveAll(cache, id) == [vid \in {} |-> cache[vid]]

\* del CACHE[video_id]
Remove(cache, id) == [vid \in DOMAIN cache \ {id} |-> cache[vid]]

(***************************************************************************)
(* Proxy sources.  A line of a source list is a sequence of tokens; an     *)
(* address is a line that starts with the scheme token.                    *)
(***************************************************************************)
Scheme == "http://"

Addr1 == <<Scheme, "p1", ":", "80">>
Addr2 == <<Scheme, "p2", ":", "80">>

\* what one source URL can answer: nothing usable (an exception or a status
\* other than 200) or the lines of its body
NoAnswer == [ok |-> FALSE, lines |-> <<>>]

SourceAnswers ==
    { NoAnswer,
      [ok |-> TRUE, lines |-> << <<>> >>],
      [ok |-> TRUE,
       lines |-> << <<"p1", ":", "80">>, <<"#", "p2", ":", "80">>, Addr1, <<"offline">> >>],
      [ok |-> TRUE, lines |-> << Addr2, <<>> >>] }

NumSources == 5

\* lines 55-56: the lines that are kept
LineOk(line) == line # <<>> /\ Contains(line, ":") /\ Head(line) # "#"

\* lines 58-59
LineAddr(line) == IF Head(line) # Scheme THEN <<Scheme>> \o line ELSE line

\* lines 49-66: set(proxies) for the answers of the sources
FetchedSet(answers) ==
    UNION { { LineAddr(answers[k].lines[i]) :
                i \in {n \in 1..Len(answers[k].lines) : LineOk(answers[k].lines[n])} } :
            k \in {j \in 1..Len(answers) : answers[j].ok} }

\* list(set): every order of the set
Orderings(S) == {s \in [1..Cardinality(S) -> S] : Range(s) = S}

\* every list fetch_free_proxies can return
FetchResults ==
    UNION { Orderings(FetchedSet(a)) : a \in [1..NumSources -> SourceAnswers] }

Addrs == UNION { Range(l) : l \in FetchResults }

\* Optional[str] None for a proxy
NoProxy == <<>>

(***************************************************************************)
(* Proxy selection.                                                        *)
(***************************************************************************)
\* the fallback list taken unfiltered
GetRandomProxyUnfiltered(working, list, failed) ==
    LET fromWorking == {p \in Range(working) : p \notin failed}
    IN IF working # <<>> /\ fromWorking # {} THEN fromWorking
       ELSE IF list # <<>> THEN Range(list)
       ELSE {NoProxy}

\* one choice among all the addresses that are not failed
GetRandomProxyNoPreference(working, list, failed) ==
    LET all == {p \in Range(working) \cup Range(list) : p \notin failed}
    IN IF all # {} THEN all ELSE {NoProxy}

\* get_random_proxy: the addresses random.choice can return, None when none
GetRandomProxy(working, list, failed) ==
    LET fromWorking == {p \in Range(working) : p \notin failed}
        fromList == {p \in Range(list) : p \notin failed}
    IN IF working # <<>> /\ fromWorking # {} THEN fromWorking
       ELSE IF list # <<>> /\ fromList # {} THEN fromList
       ELSE {NoProxy}

\* get_ydl_opts(use_proxy=len(PROXY_LIST) > 0): the values opts.get("proxy")
\* can take
YdlProxy(working, list, failed) ==
    IF Len(list) > 0 THEN GetRandomProxy(working, list, failed) ELSE {NoProxy}

\* the test without .lower()
IsProxyErrorCaseSensitive(error_msg) ==
    Contains(error_msg, "proxy") \/ Contains(error_msg, "tunnel")

\* line 224: the error text names the proxy or the tunnel
IsProxyError(error_msg) ==
    Contains(LowerText(error_msg), "proxy") \/ Contains(LowerText(error_msg), "tunnel")

(***************************************************************************)
(* Format selection, on the normalized formats of a resolved result.       *)
(***************************************************************************)
\* x.get(k) or 0, for k in vbr, abr
Key(f, k) == IF f[k] = <<>> THEN 0 ELSE f[k][1]

\* f.get(k) not in ["none", None], for k in vcodec, acodec
CodecPresent(f, k) == f[k] \notin {"none", None}

\* an element put before the elements of equal key
InsertDescBeforeEqual(s, x, k) ==
    LET before == {i \in 1..Len(s) : Key(s[i], k) > Key(x, k)}
    IN SubSeq(s, 1, Cardinality(before)) \o <<x>>
       \o SubSeq(s, Cardinality(before) + 1, Len(s))

\* the place sorted(reverse=True) gives x in s, sorted already: the sort is
\* stable, so x goes after the elements of greater or equal key
InsertDesc(s, x, k) ==
    LET before == {i \in 1..Len(s) : Key(s[i], k) >= Key(x, k)}
    IN SubSeq(s, 1, Cardinality(before)) \o <<x>>
       \o SubSeq(s, Cardinality(before) + 1, Len(s))

\* sorted(formats, key=lambda x: x.get(k) or 0, reverse=True)
RECURSIVE SortedDesc(_, _)
SortedDesc(fs, k) ==
    IF fs = <<>> THEN <<>>
    ELSE InsertDesc(SortedDesc(SubSeq(fs, 1, Len(fs) - 1), k), fs[Len(fs)], k)

\* next((f for f in fs if f has codec k and lacks codec other), None): <<>>
\* for None, <<f>> for a format
RECURSIVE NextOnly(_, _, _)
NextOnly(fs, k, other) ==
    IF fs = <<>> THEN <<>>
    ELSE IF CodecPresent(Head(fs), k) /\ ~CodecPresent(Head(fs), other)
         THEN <<Head(fs)>>
         ELSE NextOnly(Tail(fs), k, other)

\* lines 277-281
BestVideo(formats) == NextOnly(SortedDesc(formats, "vbr"), "vcodec", "acodec")

\* lines 283-287
BestAudio(formats) == NextOnly(SortedDesc(formats, "abr"), "acodec", "vcodec")

\* the urls that occur, cut around the marker
UrlParts(url) ==
    CASE url = "https://cdn/index.m3u8" -> <<"https://cdn/index", ".m3u8">>
      [] url = "https://cdn/hls.m3u8?sig=1" -> <<"https://cdn/hls", ".m3u8", "?sig=1">>
      [] url = "https://cdn/m3u8/seg.ts" -> <<"https://cdn/", "m3u8", "/seg", ".ts">>
      [] OTHER -> <<url>>

\* the test by the url alone
IsM3u8UrlOnly(f) == Truthy(f.url) /\ Contains(UrlParts(f.url), ".m3u8")

\* lines 252-256: the condition of the manifest filter
IsM3u8(f) ==
    /\ Truthy(f.url)
    /\ \/ Contains(UrlParts(f.url), ".m3u8")
       \/ f.ext = "m3u8"
       \/ f.protocol \in {"m3u8_native", "http_dash_segments"}

\* lines 250-257
RECURSIVE M3u8Formats(_)
M3u8Formats(fs) ==
    IF fs = <<>> THEN <<>>
    ELSE IF IsM3u8(Head(fs)) THEN <<Head(fs)>> \o M3u8Formats(Tail(fs))
         ELSE M3u8Formats(Tail(fs))

\* the handlers that await _fetch_and_cache_info
Routes == {"stream", "m3u8", "high"}

\* lines 259-260 and 289-290: the status the handler answers with, given the
\* status of _fetch_and_cache_info
RouteStatus(r, status, data) ==
    IF status # 200 THEN status
    ELSE CASE r = "m3u8" -> IF M3u8Formats(data.formats) = <<>> THEN 404 ELSE 200
           [] r = "high" -> IF BestVideo(data.formats) = <<>> /\ BestAudio(data.formats) = <<>>
                            THEN 404 ELSE 200
           [] OTHER -> 200

\* lines 262-266 and 292-298: the body the handler returns; get_streams
\* returns the data itself
RouteBody(r, status, data) ==
    IF RouteStatus(r, status, data) # 200 THEN <<>>
    ELSE CASE r = "m3u8" -> [title |-> data.title, id |-> data.id,
                             m3u8_formats |-> M3u8Formats(data.formats)]
           [] r = "high" -> [title |-> data.title, id |-> data.id,
                             best_video |-> BestVideo(data.formats),
                             best_audio |-> BestAudio(data.formats),
                             note |-> "Combine streams using FFmpeg for best quality"]
           [] OTHER -> <<>>

(***************************************************************************)
(* State.                                                                  *)
(***************************************************************************)
NoData == [title |-> None, id |-> None, formats |-> <<>>]
NoUpd == [current_time |-> 0, todo |-> <<>>, working |-> <<>>]
NoThr == [pc |-> "idle", id |-> None, now |-> 0]
NoCln == [expired |-> <<>>, removed |-> 0]
\* removed is the count cleanup_cache prints (line 158)
\* prev is the entry line 214 replaced, <<>> when it replaced none
NoResp == [op |-> "none", proc |-> 0, route |-> None, id |-> None, status |-> 0,
           data |-> NoData, detail |-> <<>>, body |-> <<>>, removed |-> 0,
           prev |-> <<>>]

\* the clock when the process starts: time.time() counts from 1970, so the
\* first refresh is due whatever PROXY_LIST holds (last_proxy_fetch is 0)
StartTime == PROXY_FETCH_INTERVAL

Init ==
    /\ now = StartTime
    /\ ticks = 0
    /\ CACHE = <<>>
    /\ PROXY_LIST = <<>>
    /\ WORKING_PROXIES = <<>>
    /\ FAILED_PROXIES = {}
    /\ last_proxy_fetch = 0
    /\ pc = [p \in Procs |-> "idle"]
    /\ video_id = [p \in Procs |-> None]
    /\ current_time = [p \in Procs |-> 0]
    /\ attempt = [p \in Procs |-> 0]
    /\ current_proxy = [p \in Procs |-> NoProxy]
    /\ upd = [p \in Procs |-> NoUpd]
    /\ route = [p \in Procs |-> None]
    /\ thr = [t \in Threads |-> NoThr]
    /\ cln = [a \in Procs \cup Threads |-> NoCln]
    /\ resp = NoResp

\* the interval of the cache in place of the interval of the pool
RecentlyFetchedShort(t, last, list) ==
    t - last < DEFAULT_CACHE_DURATION /\ list # <<>>

\* line 88: update_proxy_list has nothing to do
RecentlyFetched(t, last, list) ==
    t - last < PROXY_FETCH_INTERVAL /\ list # <<>>

\* _fetch_and_cache_info returns data or raises with status, and the handler
\* r that awaited it answers (lines 241, 247-266, 272-298): the request is
\* over, its locals are gone
Finish(p, r, op, id, status, data, detail, removed, prev) ==
    /\ pc' = [pc EXCEPT ![p] = "idle"]
    /\ video_id' = [video_id EXCEPT ![p] = None]
    /\ current_time' = [current_time EXCEPT ![p] = 0]
    /\ attempt' = [attempt EXCEPT ![p] = 0]
    /\ current_proxy' = [current_proxy EXCEPT ![p] = NoProxy]
    /\ route' = [route EXCEPT ![p] = None]
    /\ resp' = [NoResp EXCEPT !.op = op, !.proc = p, !.route = r, !.id = id,
                              !.status = RouteStatus(r, status, data),
                              !.data = data, !.detail = detail,
                              !.body = RouteBody(r, status, data),
                              !.removed = removed, !.prev = prev]

\* lines 176-186: iteration n of the retry loop up to the await of the
\* extractor call, with the pool as it is when the iteration starts
StartAttempt(p, n, working, list, failed) ==
    /\ \E proxy \in YdlProxy(working, list, failed) :
           current_proxy' = [current_proxy EXCEPT ![p] = proxy]
    /\ attempt' = [attempt EXCEPT ![p] = n]
    /\ pc' = [pc EXCEPT ![p] = "extracting"]

\* lines 165-171 and 83-93, after the sweep left cache: request p of handler
\* r, which read the clock t on arrival, is served a live entry; otherwise
\* update_proxy_list returns at once (line 89) and the first attempt starts,
\* or it awaits fetch_free_proxies
AfterSweep(p, r, id, cache, t, removed) ==
    IF CacheHit(cache, id, t)
    THEN /\ Finish(p, r, "hit", id, 200, cache[id][2], <<>>, removed, <<>>)
         /\ UNCHANGED <<poolVars, upd>>
    ELSE /\ video_id' = [video_id EXCEPT ![p] = id]
         /\ route' = [route EXCEPT ![p] = r]
         /\ current_time' = [current_time EXCEPT ![p] = t]
         /\ resp' = [NoResp EXCEPT !.removed = removed]
         /\ IF RecentlyFetched(now, last_proxy_fetch, PROXY_LIST)
            THEN /\ StartAttempt(p, 0, WORKING_PROXIES, PROXY_LIST, FAILED_PROXIES)
                 /\ UNCHANGED upd
            ELSE /\ pc' = [pc EXCEPT ![p] = "fetching"]
                 /\ upd' = [upd EXCEPT ![p] = [NoUpd EXCEPT !.current_time = now]]
                 /\ UNCHANGED <<attempt, current_proxy>>
         /\ UNCHANGED poolVars

\* lines 160-171 and 83-93: a request for handler r arrives and runs to its
\* first await with no other thread in between: sweep, then as above
Arrive(p, r, id) ==
    /\ pc[p] = "idle"
    /\ LET swept == CleanupCache(CACHE, now)
       IN /\ CACHE' = swept
          /\ AfterSweep(p, r, id, swept, now, Cardinality(DOMAIN CACHE \ DOMAIN swept))
    /\ UNCHANGED <<now, ticks, threadVars>>

\* lines 239-241: GET /stream/{video_id}
Resolve(p, id) == Arrive(p, "stream", id)

\* lines 243-246: GET /m3u8/{video_id}
GetM3u8Streams(p, id) == Arrive(p, "m3u8", id)

\* lines 268-271: GET /high/{video_id}
GetHighQualityStream(p, id) == Arrive(p, "high", id)

\* lines 93-100: fetch_free_proxies returned new_proxies
FetchReturn(p, new_proxies) ==
    /\ pc[p] = "fetching"
    /\ IF new_proxies # <<>>
       THEN /\ PROXY_LIST' = new_proxies
            /\ upd' = [upd EXCEPT ![p].todo =
                         SubSeq(new_proxies, 1, Min(Len(new_proxies), PROBE_COUNT))]
            /\ pc' = [pc EXCEPT ![p] = "probing"]
            /\ resp' = NoResp
            /\ UNCHANGED <<attempt, current_proxy>>
       ELSE /\ upd' = [upd EXCEPT ![p] = NoUpd]
            /\ StartAttempt(p, 0, WORKING_PROXIES, PROXY_LIST, FAILED_PROXIES)
            /\ resp' = NoResp
            /\ UNCHANGED PROXY_LIST
    /\ UNCHANGED <<now, ticks, CACHE, WORKING_PROXIES, FAILED_PROXIES,
                   last_proxy_fetch, video_id, current_time, route, threadVars>>

\* lines 100-107: test_proxy returned ok for the next address of the prefix
ProbeReturn(p, ok) ==
    /\ pc[p] = "probing"
    /\ LET working == IF ok THEN Append(upd[p].working, Head(upd[p].todo))
                      ELSE upd[p].working
           todo == Tail(upd[p].todo)
       IN IF todo # <<>>
          THEN /\ upd' = [upd EXCEPT ![p].todo = todo, ![p].working = working]
               /\ resp' = NoResp
               /\ UNCHANGED <<WORKING_PROXIES, last_proxy_fetch, pc, attempt,
                              current_proxy>>
          ELSE /\ WORKING_PROXIES' = working
               /\ last_proxy_fetch' = upd[p].current_time
               /\ upd' = [upd EXCEPT ![p] = NoUpd]
               /\ StartAttempt(p, 0, working, PROXY_LIST, FAILED_PROXIES)
               /\ resp' = NoResp
    /\ UNCHANGED <<now, ticks, CACHE, PROXY_LIST, FAILED_PROXIES, video_id,
                   current_time, route, threadVars>>

\* lines 188-217: the extractor call returned raw_info, a dict
ExtractOk(p, raw) ==
    LET data == ResponseData(raw, video_id[p])
    IN /\ CACHE' = Store(CACHE, video_id[p],
                         <<current_time[p], data, CacheDuration(data.formats)>>)
       /\ Finish(p, route[p], "fetched", video_id[p], 200, data, <<>>, 0,
                 IF video_id[p] \in DOMAIN CACHE THEN <<CACHE[video_id[p]]>> ELSE <<>>)
       /\ UNCHANGED FAILED_PROXIES

\* one iteration too many
MoreAttemptsOffByOne(n) == n < max_retries

\* line 229: this was not the last iteration
MoreAttempts(n) == n < max_retries - 1

\* lines 219-237: the try block raised an exception with text error_msg
ExtractFail(p, error_msg) ==
    /\ FAILED_PROXIES' =
          IF current_proxy[p] # NoProxy /\ IsProxyError(error_msg)
          THEN FAILED_PROXIES \cup {current_proxy[p]}
          ELSE FAILED_PROXIES
    /\ IF MoreAttempts(attempt[p])
       THEN /\ pc' = [pc EXCEPT ![p] = "sleeping"]
            /\ current_proxy' = [current_proxy EXCEPT ![p] = NoProxy]
            /\ resp' = NoResp
            /\ UNCHANGED <<video_id, current_time, attempt, route>>
       ELSE Finish(p, route[p], "error", video_id[p], 500, NoData, error_msg, 0, <<>>)
    /\ UNCHANGED CACHE

\* line 186 resumes: the extractor returned raw (None makes line 201 raise
\* AttributeError) or raised
ExtractReturn(p, out) ==
    /\ pc[p] = "extracting"
    /\ IF out.raised THEN ExtractFail(p, out.text)
       ELSE IF out.raw = RawNone THEN ExtractFail(p, AttributeErrorText)
       ELSE ExtractOk(p, out.raw)
    /\ UNCHANGED <<now, ticks, PROXY_LIST, WORKING_PROXIES, last_proxy_fetch, upd,
                   threadVars>>

Returns(raws) == [raised : {FALSE}, raw : raws, text : {<<>>}]
Raises(texts) == [raised : {TRUE}, raw : {RawNone}, text : texts]

\* line 230-231: asyncio.sleep(1) is over, the next iteration starts
Wake(p) ==
    /\ pc[p] = "sleeping"
    /\ StartAttempt(p, attempt[p] + 1, WORKING_PROXIES, PROXY_LIST, FAILED_PROXIES)
    /\ resp' = NoResp
    /\ UNCHANGED <<now, ticks, CACHE, poolVars, video_id, current_time, upd, route,
                   threadVars>>

\* lines 310-315: DELETE /cache/{video_id}
DeleteCache(id) ==
    /\ IF id \in DOMAIN CACHE
       THEN /\ CACHE' = Remove(CACHE, id)
            /\ resp' = [NoResp EXCEPT !.op = "delete", !.id = id, !.status = 200]
       ELSE /\ resp' = [NoResp EXCEPT !.op = "delete", !.id = id, !.status = 404]
            /\ UNCHANGED CACHE
    /\ UNCHANGED <<now, ticks, poolVars, pc, video_id, current_time, attempt,
                   current_proxy, upd, route, threadVars>>

\* lines 321-328: the listing of a cache at time t
Listing(cache, t) ==
    [vid \in DOMAIN cache |->
        [age_sec |-> t - cache[vid][1],
         remaining_sec |-> cache[vid][3] - (t - cache[vid][1]),
         duration_sec |-> cache[vid][3]]]

\* lines 317-328: GET /cache
ListCache ==
    /\ CACHE' = CleanupCache(CACHE, now)
    /\ resp' = [NoResp EXCEPT !.op = "list", !.status = 200,
                              !.body = Listing(CACHE', now),
                              !.removed = Cardinality(DOMAIN CACHE \ DOMAIN CACHE')]
    /\ UNCHANGED <<now, ticks, poolVars, pc, video_id, current_time, attempt,
                   current_proxy, upd, route, threadVars>>

\* lines 300-308: GET /proxy/stats
ProxyStats ==
    /\ resp' = [NoResp EXCEPT !.op = "stats", !.status = 200,
                              !.body = <<Len(PROXY_LIST), Len(WORKING_PROXIES),
                                         Cardinality(FAILED_PROXIES),
                                         Cardinality(DOMAIN CACHE)>>]
    /\ UNCHANGED <<now, ticks, CACHE, poolVars, pc, video_id, current_time, attempt,
                   current_proxy, upd, route, threadVars>>

\* the clock advances by d seconds; d is far longer than the steps a call
\* takes between two awaits, so none is under way
Tick(d) ==
    /\ ticks < MaxTicks
    /\ \A p \in Procs : pc[p] # "sweeping"
    /\ \A t \in Threads : thr[t].pc = "idle"
    /\ ticks' = ticks + 1
    /\ now' = now + d
    /\ resp' = NoResp
    /\ UNCHANGED <<CACHE, poolVars, pc, video_id, current_time, attempt,
                   current_proxy, upd, route, threadVars>>

AllOutcomes == Returns(RawInfos) \cup Raises(ErrorTexts)

(***************************************************************************)
(* The same code with the other threads in view.  The handlers declared    *)
(* with def (lines 301, 311, 318) are not coroutines: the framework runs   *)
(* each call of them in a worker thread of its pool, beside the event loop *)
(* thread, and the interpreter switches threads between bytecodes.  So     *)
(* cleanup_cache, delete_cache and list_cache are steps, not one step, and *)
(* so is the part of _fetch_and_cache_info before its first await.  The    *)
(* comprehensions of lines 154 and 321-328 and the test and read of lines  *)
(* 165-166 are taken in one step each, and the clock is read once per      *)
(* call: a switch inside them only adds behaviours.                        *)
(***************************************************************************)
\* the response to an exception no handler catches
ServerErrorText == <<"Internal", "Server", "Error">>

\* line 154: the ids the comprehension collects at time t
ExpiredIds(cache, t) == {vid \in DOMAIN cache : Expired(cache[vid], t)}

\* lines 160-162, 153-154: request p of handler r arrives, reads the clock
\* and collects the expired ids, in the order of the dict
ArriveScan(p, r, id) ==
    /\ pc[p] = "idle"
    /\ \A q \in Procs : pc[q] # "sweeping"
    /\ \E e \in Orderings(ExpiredIds(CACHE, now)) :
          cln' = [cln EXCEPT ![p] = [expired |-> e, removed |-> 0]]
    /\ pc' = [pc EXCEPT ![p] = "sweeping"]
    /\ video_id' = [video_id EXCEPT ![p] = id]
    /\ route' = [route EXCEPT ![p] = r]
    /\ current_time' = [current_time EXCEPT ![p] = now]
    /\ resp' = NoResp
    /\ UNCHANGED <<now, ticks, CACHE, poolVars, attempt, current_proxy, upd, thr>>

\* lines 155-156 on the event loop: del CACHE[vid] for the next expired id;
\* KeyError ends the request
LoopSweepDelete(p) ==
    /\ pc[p] = "sweeping"
    /\ cln[p].expired # <<>>
    /\ LET vid == Head(cln[p].expired)
       IN IF vid \in DOMAIN CACHE
          THEN /\ CACHE' = Remove(CACHE, vid)
               /\ cln' = [cln EXCEPT ![p].expired = Tail(@), ![p].removed = @ + 1]
               /\ resp' = NoResp
               /\ UNCHANGED <<pc, video_id, current_time, attempt, current_proxy, route>>
          ELSE /\ Finish(p, route[p], "crash", video_id[p], 500, NoData,
                         ServerErrorText, cln[p].removed, <<>>)
               /\ cln' = [cln EXCEPT ![p] = NoCln]
               /\ UNCHANGED CACHE
    /\ UNCHANGED <<now, ticks, poolVars, upd, thr>>

\* lines 165-171 and 83-93: the sweep is over, the request goes on
ArriveCheck(p) ==
    /\ pc[p] = "sweeping"
    /\ cln[p].expired = <<>>
    /\ AfterSweep(p, route[p], video_id[p], CACHE, current_time[p], cln[p].removed)
    /\ cln' = [cln EXCEPT ![p] = NoCln]
    /\ UNCHANGED <<now, ticks, CACHE, thr>>

\* lines 311-312, 315: thread t starts DELETE /cache/{video_id}
ThreadDeleteCheck(t, id) ==
    /\ thr[t].pc = "idle"
    /\ IF id \in DOMAIN CACHE
       THEN /\ thr' = [thr EXCEPT ![t] = [NoThr EXCEPT !.pc = "del", !.id = id]]
            /\ resp' = NoResp
       ELSE /\ resp' = [NoResp EXCEPT !.op = "delete", !.proc = t, !.id = id,
                                      !.status = 404]
            /\ UNCHANGED thr
    /\ UNCHANGED <<now, ticks, CACHE, poolVars, pc, video_id, current_time, attempt,
                   current_proxy, upd, route, cln>>

\* lines 313-314: del CACHE[video_id], KeyError if another thread removed it
ThreadDeleteDel(t) ==
    /\ thr[t].pc = "del"
    /\ IF thr[t].id \in DOMAIN CACHE
       THEN /\ CACHE' = Remove(CACHE, thr[t].id)
            /\ resp' = [NoResp EXCEPT !.op = "delete", !.proc = t, !.id = thr[t].id,
                                      !.status = 200]
       ELSE /\ resp' = [NoResp EXCEPT !.op = "crash", !.proc = t, !.id = thr[t].id,
                                      !.status = 500, !.detail = ServerErrorText]
            /\ UNCHANGED CACHE
    /\ thr' = [thr EXCEPT ![t] = NoThr]
    /\ UNCHANGED <<now, ticks, poolVars, pc, video_id, current_time, attempt,
                   current_proxy, upd, route, cln>>

\* lines 318-320, 153-154: thread t starts GET /cache
ThreadListScan(t) ==
    /\ thr[t].pc = "idle"
    /\ \E e \in Orderings(ExpiredIds(CACHE, now)) :
          cln' = [cln EXCEPT ![t] = [expired |-> e, removed |-> 0]]
    /\ thr' = [thr EXCEPT ![t] = [NoThr EXCEPT !.pc = "sweeping", !.now = now]]
    /\ resp' = NoResp
    /\ UNCHANGED <<now, ticks, CACHE, poolVars, pc, video_id, current_time, attempt,
                   current_proxy, upd, route>>

\* lines 155-156 in thread t
ThreadSweepDelete(t) ==
    /\ thr[t].pc = "sweeping"
    /\ cln[t].expired # <<>>
    /\ LET vid == Head(cln[t].expired)
       IN IF vid \in DOMAIN CACHE
          THEN /\ CACHE' = Remove(CACHE, vid)
               /\ cln' = [cln EXCEPT ![t].expired = Tail(@), ![t].removed = @ + 1]
               /\ resp' = NoResp
               /\ UNCHANGED thr
          ELSE /\ resp' = [NoResp EXCEPT !.op = "crash", !.proc = t, !.status = 500,
                                         !.detail = ServerErrorText,
                                         !.removed = cln[t].removed]
               /\ thr' = [thr EXCEPT ![t] = NoThr]
               /\ cln' = [cln EXCEPT ![t] = NoCln]
               /\ UNCHANGED CACHE
    /\ UNCHANGED <<now, ticks, poolVars, pc, video_id, current_time, attempt,
                   current_proxy, upd, route>>

\* lines 321-328 in thread t: the listing, at the time read on line 319
ThreadListRead(t) ==
    /\ thr[t].pc = "sweeping"
    /\ cln[t].expired = <<>>
    /\ resp' = [NoResp EXCEPT !.op = "list", !.proc = t, !.status = 200,
                              !.body = Listing(CACHE, thr[t].now),
                              !.removed = cln[t].removed]
    /\ thr' = [thr EXCEPT ![t] = NoThr]
    /\ cln' = [cln EXCEPT ![t] = NoCln]
    /\ UNCHANGED <<now, ticks, CACHE, poolVars, pc, video_id, current_time, attempt,
                   current_proxy, upd, route>>

(***************************************************************************)
(* The whole service.                                                      *)
(***************************************************************************)
Next ==
    \/ \E p \in Procs, id \in Ids : Resolve(p, id)
    \/ \E p \in Procs, id \in Ids : GetM3u8Streams(p, id)
    \/ \E p \in Procs, id \in Ids : GetHighQualityStream(p, id)
    \/ \E p \in Procs, l \in FetchResults : FetchReturn(p, l)
    \/ \E p \in Procs, ok \in BOOLEAN : ProbeReturn(p, ok)
    \/ \E p \in Procs, out \in AllOutcomes \cup Returns(SelectRaws) :
          ExtractReturn(p, out)
    \/ \E p \in Procs : Wake(p)
    \/ \E id \in Ids : DeleteCache(id)
    \/ ListCache
    \/ ProxyStats
    \/ \E d \in TickSteps \cup {PROXY_FETCH_INTERVAL} : Tick(d)

Spec == Init /\ [][Next]_vars

(***************************************************************************)
(* The specifications checked are Spec with its inputs restricted.         *)
(*                                                                         *)
(* SpecCache: the cache under concurrent requests for two ids.  Every      *)
(* extractor call succeeds and the proxy sources answer nothing, so every  *)
(* attempt goes out without a proxy.                                       *)
(***************************************************************************)
CacheRaws == {r \in RawInfos : r # RawNone /\ r.title \in {"empty", "sparse", "rich"}}

NextCache ==
    \/ \E p \in Procs, id \in Ids : Resolve(p, id)
    \/ \E p \in Procs : FetchReturn(p, <<>>)
    \/ \E p \in Procs, out \in Returns(CacheRaws) : ExtractReturn(p, out)
    \/ \E id \in Ids : DeleteCache(id)
    \/ ListCache
    \/ \E d \in TickSteps : Tick(d)

SpecCache == Init /\ [][NextCache]_vars

(***************************************************************************)
(* SpecSeq: one request at a time for two ids, with failing attempts.      *)
(***************************************************************************)
NextSeq ==
    \/ \E id \in Ids : Resolve(1, id)
    \/ FetchReturn(1, <<>>)
    \/ \E out \in Returns(CacheRaws \cup {RawNone}) \cup Raises({<<"Video", "unavailable">>}) :
          ExtractReturn(1, out)
    \/ Wake(1)
    \/ \E id \in Ids : DeleteCache(id)
    \/ ListCache
    \/ \E d \in TickSteps : Tick(d)

SpecSeq == Init /\ [][NextSeq]_vars

(***************************************************************************)
(* SpecPool: the proxy pool and the retry loop under concurrent requests   *)
(* for one id, the clock standing still.                                   *)
(***************************************************************************)
PoolRaws == {r \in RawInfos : r = RawNone \/ r.title = "nokey"}

NextPool ==
    \/ \E p \in Procs : Resolve(p, "v1")
    \/ \E p \in Procs, l \in FetchResults : FetchReturn(p, l)
    \/ \E p \in Procs, ok \in BOOLEAN : ProbeReturn(p, ok)
    \/ \E p \in Procs, out \in Returns(PoolRaws) \cup Raises(ErrorTexts) :
          ExtractReturn(p, out)
    \/ \E p \in Procs : Wake(p)
    \/ DeleteCache("v1")
    \/ ProxyStats

SpecPool == Init /\ [][NextPool]_vars

(***************************************************************************)
(* SpecLive: one request at a time for one id.  The event loop resumes a   *)
(* coroutine whose await is over: the sleep of line 230 ends after one     *)
(* second, requests.get gives up after its timeout (lines 51 and 77), so   *)
(* fetch_free_proxies and test_proxy return.  Nothing bounds the extractor *)
(* call of line 186, so no fairness is stated for ExtractReturn.           *)
(***************************************************************************)
NextLive ==
    \/ Resolve(1, "v1")
    \/ \E l \in FetchResults : FetchReturn(1, l)
    \/ \E ok \in BOOLEAN : ProbeReturn(1, ok)
    \/ \E out \in Returns(PoolRaws) \cup Raises(ErrorTexts) : ExtractReturn(1, out)
    \/ Wake(1)
    \/ DeleteCache("v1")

SpecLive ==
    /\ Init
    /\ [][NextLive]_vars
    /\ WF_vars(\E l \in FetchResults : FetchReturn(1, l))
    /\ WF_vars(\E ok \in BOOLEAN : ProbeReturn(1, ok))
    /\ WF_vars(Wake(1))

(***************************************************************************)
(* SpecRefresh: one request at a time for one id, with the proxy pool and  *)
(* the clock: a request finds the pool fresh, or an hour old, or empty.    *)
(***************************************************************************)
NextRefresh ==
    \/ Resolve(1, "v1")
    \/ \E l \in FetchResults : FetchReturn(1, l)
    \/ \E ok \in BOOLEAN : ProbeReturn(1, ok)
    \/ \E out \in Returns({[title |-> "nokey"]})
                    \cup Raises({<<"Tunnel", "connection", "failed">>}) :
          ExtractReturn(1, out)
    \/ Wake(1)
    \/ DeleteCache("v1")
    \/ \E d \in {DEFAULT_CACHE_DURATION, PROXY_FETCH_INTERVAL} : Tick(d)

SpecRefresh == Init /\ [][NextRefresh]_vars

(***************************************************************************)
(* SpecThreads: one request at a time on the event loop for two ids, every *)
(* extractor call succeeding, beside one worker thread that runs           *)
(* delete_cache, list_cache and proxy_stats, with the clock.               *)
(***************************************************************************)
NextThreads ==
    \/ \E id \in Ids : ArriveScan(1, "stream", id)
    \/ LoopSweepDelete(1)
    \/ ArriveCheck(1)
    \/ FetchReturn(1, <<>>)
    \/ \E out \in Returns(CacheRaws) : ExtractReturn(1, out)
    \/ \E t \in Threads, id \in Ids : ThreadDeleteCheck(t, id)
    \/ \E t \in Threads : ThreadDeleteDel(t)
    \/ \E t \in Threads : ThreadListScan(t)
    \/ \E t \in Threads : ThreadSweepDelete(t)
    \/ \E t \in Threads : ThreadListRead(t)
    \/ ProxyStats
    \/ \E d \in TickSteps : Tick(d)

SpecThreads == Init /\ [][NextThreads]_vars

(***************************************************************************)
(* SpecSelect: one request at a time for one id through the three          *)
(* handlers, the extractor returning every list of at most MaxFormats      *)
(* formats or failing; the clock stands still.                             *)
(***************************************************************************)
NextSelect ==
    \/ Resolve(1, "v1")
    \/ GetM3u8Streams(1, "v1")
    \/ GetHighQualityStream(1, "v1")
    \/ FetchReturn(1, <<>>)
    \/ \E out \in Returns(SelectRaws) \cup Raises({<<"Video", "unavailable">>}) :
          ExtractReturn(1, out)
    \/ Wake(1)
    \/ DeleteCache("v1")

SpecSelect == Init /\ [][NextSelect]_vars

(***************************************************************************)
(* Steps, as the claims name them.  resp is the response of the step just  *)
(* taken, so resp' tells which request the step answered.                  *)
(***************************************************************************)
\* request p arrived in this step (lines 160-168 ran)
Arrives(p) ==
    /\ pc[p] = "idle"
    /\ pc'[p] # "idle" \/ (resp'.op = "hit" /\ resp'.proc = p)

\* the id request p arrived with
ArrivedId(p) == IF pc'[p] # "idle" THEN video_id'[p] ELSE resp'.id

\* the attempt of request p ended in this step
AttemptEnds(p) == pc[p] = "extracting" /\ pc'[p] # "extracting"

\* request p selected its proxy in this step (line 177)
Selects(p) == pc[p] # "extracting" /\ pc'[p] = "extracting"

\* cleanup_cache ran in this step
Sweeps == resp'.op = "list" \/ \E p \in Procs : Arrives(p)

(***************************************************************************)
(* C1.  A successful resolve stores an entry whose ttl is 14400 when the   *)
(* payload has 12 or more normalized formats and 1800 otherwise, a payload *)
(* with no format included; the stored entry holds the returned payload;   *)
(* and no step changes the ttl of an entry it leaves in the cache unless   *)
(* it is the store of a new entry for that id.                             *)
(***************************************************************************)
C1_TtlOf(data) == IF Len(data.formats) >= 12 THEN 14400 ELSE 1800

C1_Stored ==
    /\ resp.op = "fetched" =>
          /\ resp.id \in DOMAIN CACHE
          /\ CACHE[resp.id][2] = resp.data
          /\ resp.status = 200
    /\ \A id \in DOMAIN CACHE : CACHE[id][3] = C1_TtlOf(CACHE[id][2])

C1_TtlFixed ==
    \A id \in DOMAIN CACHE \cap DOMAIN CACHE' :
        \/ CACHE'[id][3] = CACHE[id][3]
        \/ resp'.op = "fetched" /\ resp'.id = id

\* C1: the ttl stored is 14400 for 12 formats or more and 1800 below, and is
\* fixed at insertion
C1_AdaptiveTtl == [][C1_TtlFixed]_vars /\ []C1_Stored

\* a result without formats was just cached for 1800 s beside a 14400 s entry
C1_Witness ==
    /\ resp.op = "fetched"
    /\ resp.data.formats = <<>>
    /\ resp.id \in DOMAIN CACHE
    /\ CACHE[resp.id][3] = 1800
    /\ \E id \in DOMAIN CACHE :
          Len(CACHE[id][2].formats) = 12 /\ CACHE[id][3] = 14400

(***************************************************************************)
(* C2.  An arriving resolve(id) is answered from the cache if and only if  *)
(* an entry for id exists with now - insertedAt < ttl; it then returns     *)
(* that entry's payload at once, and neither the pool nor the request's    *)
(* refresh, selection or attempt state changes.  Otherwise the request     *)
(* goes on to the refresh or the first attempt.  A response served from    *)
(* the cache is the payload of an entry younger than its ttl, and a        *)
(* failure carries no payload.                                             *)
(***************************************************************************)
C2_Live(id) == id \in DOMAIN CACHE /\ now - CACHE[id][1] < CACHE[id][3]

C2_Arrival ==
    \A p \in Procs :
        Arrives(p) =>
            LET id == ArrivedId(p) IN
            /\ (resp'.op = "hit") <=> C2_Live(id)
            /\ resp'.op = "hit" =>
                  /\ resp'.data = CACHE[id][2]
                  /\ resp'.status = 200
                  /\ pc'[p] = "idle"
                  /\ UNCHANGED <<poolVars, upd, attempt, current_proxy>>
            /\ resp'.op # "hit" => pc'[p] \in {"fetching", "extracting"}

C2_Served ==
    /\ resp.op = "hit" =>
          /\ resp.id \in DOMAIN CACHE
          /\ now - CACHE[resp.id][1] < CACHE[resp.id][3]
          /\ resp.data = CACHE[resp.id][2]
    /\ resp.op = "error" => resp.data = NoData /\ resp.status = 500

C3_FailureText(out) == IF out.raised THEN out.text ELSE AttributeErrorText

C3_Failing(out) == out.raised \/ out.raw = RawNone

C3_Steps ==
    \A p \in Procs :
        /\ Selects(p) =>
              attempt'[p] = IF pc[p] = "sleeping" THEN attempt[p] + 1 ELSE 0
        /\ AttemptEnds(p) =>
              \/ /\ pc'[p] = "sleeping"
                 /\ attempt[p] < 4
                 /\ attempt'[p] = attempt[p]
                 /\ resp'.op = "none"
              \/ /\ pc'[p] = "idle"
                 /\ attempt[p] = 4
                 /\ resp'.op = "error" /\ resp'.proc = p /\ resp'.status = 500
                 /\ \E out \in AllOutcomes :
                       /\ C3_Failing(out)
                       /\ ExtractReturn(p, out)
                       /\ resp'.detail = C3_FailureText(out)
              \/ /\ pc'[p] = "idle"
                 /\ resp'.op = "fetched" /\ resp'.proc = p /\ resp'.status = 200
                 /\ \E out \in AllOutcomes : ~C3_Failing(out) /\ ExtractReturn(p, out)
        /\ (resp'.op \in {"error", "fetched"} /\ resp'.proc = p) => AttemptEnds(p)

C3_Counted ==
    \A p \in Procs :
        /\ attempt[p] < 5
        /\ pc[p] = "sleeping" => attempt[p] < 4

\* C3: at most five attempts, then status 500 with the last error text
C3_BoundedRetries == [][C3_Steps]_vars /\ []C3_Counted

\* five attempts without any proxy failed: the request ended in the failure
C3_Witness ==
    /\ resp.op = "error"
    /\ resp.status = 500
    /\ PROXY_LIST = <<>>

(***************************************************************************)
(* C5.  The failed set only grows, and the proxy a request selects is not  *)
(* in the failed set, whatever the refreshes and the other requests did.   *)
(***************************************************************************)
C5_Step ==
    /\ FAILED_PROXIES \subseteq FAILED_PROXIES'
    /\ \A p \in Procs : Selects(p) => current_proxy'[p] \notin FAILED_PROXIES'

\* C5: a failed address is never selected again
C5_FailedNeverSelected == [][C5_Step]_vars

\* a failed address is listed as working again and a request runs with
\* another proxy
C5_Witness ==
    \E a \in FAILED_PROXIES :
        /\ a \in Range(WORKING_PROXIES)
        /\ \E p \in Procs :
              /\ pc[p] = "extracting"
              /\ current_proxy[p] # NoProxy
              /\ current_proxy[p] \notin FAILED_PROXIES

(***************************************************************************)
(* C6.  The proxy a request selects is a working address that is not       *)
(* failed if there is one; otherwise a candidate that is not failed if     *)
(* there is one; otherwise none.                                           *)
(***************************************************************************)
C6_Step ==
    \A p \in Procs :
        Selects(p) =>
            LET w == Range(WORKING_PROXIES') \ FAILED_PROXIES'
                c == Range(PROXY_LIST') \ FAILED_PROXIES'
            IN IF w # {} THEN current_proxy'[p] \in w
               ELSE IF c # {} THEN current_proxy'[p] \in c
               ELSE current_proxy'[p] = NoProxy

\* C6: selection prefers working over candidate over none
C6_PreferenceOrder == [][C6_Step]_vars

\* every working address is failed and a request runs with an untested
\* candidate
C6_Witness ==
    /\ WORKING_PROXIES # <<>>
    /\ Range(WORKING_PROXIES) \subseteq FAILED_PROXIES
    /\ \E p \in Procs :
          /\ pc[p] = "extracting"
          /\ current_proxy[p] \in Range(PROXY_LIST) \ FAILED_PROXIES

(***************************************************************************)
(* C7.  The step in which an attempt fails adds the attempt's proxy to the *)
(* failed set if the attempt had one and the error text names the proxy or *)
(* the tunnel, and changes the failed set in no other way; a successful    *)
(* attempt and every other step leave the failed set as it is.             *)
(***************************************************************************)
C7_ProxyTexts ==
    { <<"Unable", "to", "connect", "to", "Proxy">>, <<"Tunnel", "connection", "failed">> }

C7_Step ==
    /\ \A p \in Procs :
          AttemptEnds(p) =>
              \A out \in AllOutcomes :
                  ExtractReturn(p, out) =>
                      FAILED_PROXIES' =
                          IF /\ C3_Failing(out)
                             /\ C3_FailureText(out) \in C7_ProxyTexts
                             /\ current_proxy[p] # NoProxy
                          THEN FAILED_PROXIES \cup {current_proxy[p]}
                          ELSE FAILED_PROXIES
    /\ (\A p \in Procs : ~AttemptEnds(p)) => FAILED_PROXIES' = FAILED_PROXIES

\* C7: a failed attempt quarantines its proxy iff the error text names the
\* proxy or the tunnel
C7_QuarantineOnProxyError == [][C7_Step]_vars

\* both proxies failed and a later attempt succeeded: the result is cached
C7_Witness ==
    /\ resp.op = "fetched"
    /\ resp.id \in DOMAIN CACHE
    /\ Cardinality(FAILED_PROXIES) = 2

(***************************************************************************)
(* C8.  A step that runs the sweep removes from the cache exactly the      *)
(* entries with now - insertedAt >= ttl and leaves every other entry as it *)
(* was.                                                                    *)
(***************************************************************************)
C8_Step ==
    Sweeps =>
        /\ DOMAIN CACHE' \subseteq DOMAIN CACHE
        /\ \A id \in DOMAIN CACHE :
              IF now - CACHE[id][1] >= CACHE[id][3]
              THEN id \notin DOMAIN CACHE'
              ELSE id \in DOMAIN CACHE' /\ CACHE'[id] = CACHE[id]

C9_InWindow(id) == now - CACHE[id][1] < CACHE[id][3]

C9_Deletes(id) == resp'.op = "delete" /\ resp'.id = id

C9_Stores(id) == resp'.op = "fetched" /\ resp'.id = id

C9_Calls ==
    \A p \in Procs :
        Arrives(p) =>
            LET id == ArrivedId(p) IN
            /\ resp'.op = "hit" => C2_Live(id) /\ resp'.data = CACHE[id][2]
            /\ (id \in DOMAIN CACHE /\ ~C9_InWindow(id)) =>
                  resp'.op # "hit" /\ id \notin DOMAIN CACHE'

C9_OriginalStep ==
    /\ C9_Calls
    /\ \A id \in DOMAIN CACHE :
          (C9_InWindow(id) /\ ~C9_Deletes(id)) =>
              id \in DOMAIN CACHE' /\ CACHE'[id][2] = CACHE[id][2]

\* C9 as claimed: within the ttl window and without a delete the payload
\* served for id stays the same
C9_Original == [][C9_OriginalStep]_vars

(***************************************************************************)
(* C9, amended.  The same, for the steps that are neither an explicit      *)
(* delete of id nor the store of a resolve(id) that had missed the cache:  *)
(* such a step leaves the whole entry unchanged.                           *)
(***************************************************************************)
C9_AmendedStep ==
    /\ C9_Calls
    /\ \A id \in DOMAIN CACHE :
          (C9_InWindow(id) /\ ~C9_Deletes(id) /\ ~C9_Stores(id)) =>
              id \in DOMAIN CACHE' /\ CACHE'[id] = CACHE[id]

\* C9 amended: within the ttl window, without a delete and without a store
\* for id, the entry served for id stays the same
C9_StableWithinWindow == [][C9_AmendedStep]_vars

\* a call was just answered from the entry of an id for which another
\* request, which had missed the cache, is still extracting
C9_Witness ==
    /\ resp.op = "hit"
    /\ \E q \in Procs : pc[q] = "extracting" /\ video_id[q] = resp.id

(***************************************************************************)
(* C10.  As claimed: the entry a resolve stores carries the time of the    *)
(* store as its insertedAt, so it is within its ttl when it is stored.     *)
(***************************************************************************)
\* C10 as claimed: insertedAt is the time of the store
C10_InsertedAtStore ==
    resp.op = "fetched" =>
        /\ resp.id \in DOMAIN CACHE
        /\ CACHE[resp.id][1] = now
        /\ now - CACHE[resp.id][1] < CACHE[resp.id][3]

(***************************************************************************)
(* C4.  As claimed: every request that has arrived reaches a terminal      *)
(* state, the extractor call of an attempt returning or not.               *)
(***************************************************************************)
\* C4 as claimed: every resolve reaches a terminal state
C4_ResolveTerminates == \A p \in Procs : (pc[p] # "idle") ~> (pc[p] = "idle")

(***************************************************************************)
(* C11.  The best video of a resolved list is the earliest of the formats  *)
(* of highest video bitrate (none counting as 0) among those with a video  *)
(* codec and without an audio codec, and none when there is no such        *)
(* format; the best audio is the same on audio codec and audio bitrate.    *)
(* GET /high returns both and answers 404 only when both are missing.      *)
(***************************************************************************)
C11_Rate(f, rate) == IF f[rate] = <<>> THEN 0 ELSE f[rate][1]

C11_Eligible(fs, codec, other) ==
    {i \in 1..Len(fs) : fs[i][codec] \notin {"none", None} /\ fs[i][other] \in {"none", None}}

C11_Best(fs, codec, other, rate) ==
    LET E == C11_Eligible(fs, codec, other)
        top == {i \in E : \A j \in E : C11_Rate(fs[i], rate) >= C11_Rate(fs[j], rate)}
    IN IF E = {} THEN <<>>
       ELSE <<fs[CHOOSE i \in top : \A j \in top : i <= j]>>

\* C11: bestVideo and bestAudio are the earliest format of highest bitrate
\* among the video-only and the audio-only formats, never a muxed one
C11_BestOfEligible ==
    (resp.route = "high" /\ resp.op \in {"hit", "fetched"}) =>
        LET fs == resp.data.formats
            v == C11_Best(fs, "vcodec", "acodec", "vbr")
            a == C11_Best(fs, "acodec", "vcodec", "abr")
        IN /\ BestVideo(fs) = v
           /\ BestAudio(fs) = a
           /\ v # <<>> => v[1].acodec \in {"none", None}
           /\ a # <<>> => a[1].vcodec \in {"none", None}
           /\ resp.status \in {200, 404}
           /\ (resp.status = 404) <=> (v = <<>> /\ a = <<>>)
           /\ resp.status = 200 =>
                 resp.body.best_video = v /\ resp.body.best_audio = a

\* a muxed format of bitrate 5000 before two video-only formats of bitrate
\* 2000: the first of the two is the best video, and there is no best audio
C11_Witness ==
    /\ resp.route = "high"
    /\ resp.status = 200
    /\ Len(resp.data.formats) = 3
    /\ resp.data.formats[1].itag = 3
    /\ resp.data.formats[2].itag = 1
    /\ resp.data.formats[3].itag = 2
    /\ resp.body.best_video = <<resp.data.formats[2]>>
    /\ resp.body.best_audio = <<>>

(***************************************************************************)
(* C12.  GET /m3u8 returns, in their order, the resolved formats whose url *)
(* holds .m3u8, whose extension is m3u8 or whose protocol is m3u8_native   *)
(* or http_dash_segments, and answers 404 exactly when there is none.  The *)
(* step that answers 404 ends the request: no attempt follows, and the     *)
(* entry of the id stays in the cache as it was resolved.                  *)
(***************************************************************************)
C12_Manifest(f) ==
    \/ f.url \in {"https://cdn/index.m3u8", "https://cdn/hls.m3u8?sig=1"}
    \/ f.ext = "m3u8"
    \/ f.protocol \in {"m3u8_native", "http_dash_segments"}

C12_Answer ==
    (resp.route = "m3u8" /\ resp.op \in {"hit", "fetched"}) =>
        LET m == SelectSeq(resp.data.formats, C12_Manifest)
        IN /\ resp.status \in {200, 404}
           /\ (resp.status = 404) <=> (m = <<>>)
           /\ resp.status = 200 =>
                 /\ resp.body.m3u8_formats = m
                 /\ resp.body.title = resp.data.title
                 /\ resp.body.id = resp.id

C12_NotFoundStep ==
    (resp'.route = "m3u8" /\ resp'.status = 404) =>
        LET p == resp'.proc
            id == resp'.id
        IN /\ pc'[p] = "idle"
           /\ attempt'[p] = 0
           /\ id \in DOMAIN CACHE'
           /\ CACHE'[id][2] = resp'.data
           /\ resp'.op = "hit" => (id \in DOMAIN CACHE /\ CACHE'[id] = CACHE[id])
           /\ UNCHANGED poolVars

\* C12: the manifest formats are exactly the filtered ones, in order; 404 iff
\* there is none, without a retry and with the cache entry left in place
C12_ManifestOrNotFound == [][C12_NotFoundStep]_vars /\ []C12_Answer

\* a cached list of formats without a manifest was just answered with 404
C12_Witness ==
    /\ resp.route = "m3u8"
    /\ resp.op = "hit"
    /\ resp.status = 404
    /\ resp.data.formats # <<>>
    /\ resp.id \in DOMAIN CACHE
    /\ CACHE[resp.id][2] = resp.data

(***************************************************************************)
(* C13.  DELETE /cache/{id} answers success and removes the entry of id    *)
(* when the cache holds one, answers 404 and leaves the cache as it is     *)
(* when it holds none, and in both cases leaves the entries of the other   *)
(* ids as they are.  The handler runs here as one step.                    *)
(***************************************************************************)
C13_Step ==
    \A id \in Ids :
        (resp'.op = "delete" /\ resp'.id = id) =>
            /\ IF id \in DOMAIN CACHE
               THEN resp'.status = 200 /\ id \notin DOMAIN CACHE'
               ELSE resp'.status = 404 /\ CACHE' = CACHE
            /\ \A other \in Ids \ {id} :
                  /\ other \in DOMAIN CACHE <=> other \in DOMAIN CACHE'
                  /\ other \in DOMAIN CACHE => CACHE'[other] = CACHE[other]
            /\ UNCHANGED <<poolVars, pc, video_id, current_time, attempt, route>>

C14_Listed ==
    resp.op = "list" =>
        /\ DOMAIN resp.body = DOMAIN CACHE
        /\ \A id \in DOMAIN resp.body :
              LET e == resp.body[id] IN
              /\ 0 <= e.age_sec
              /\ e.age_sec < e.duration_sec
              /\ e.remaining_sec >= 0
              /\ e.age_sec + e.remaining_sec = e.duration_sec
              /\ e.age_sec = now - CACHE[id][1]
              /\ e.duration_sec = CACHE[id][3]

C14_Step ==
    resp'.op = "list" =>
        \A id \in DOMAIN CACHE :
            IF now - CACHE[id][1] < CACHE[id][3]
            THEN /\ id \in DOMAIN resp'.body
                 /\ resp'.body[id].duration_sec = CACHE[id][3]
                 /\ CACHE'[id] = CACHE[id]
            ELSE id \notin DOMAIN resp'.body /\ id \notin DOMAIN CACHE'

C15_Classes(a, working, list, failed) ==
    {c \in {"candidate", "working", "failed"} :
        \/ c = "working" /\ a \in Range(working)
        \/ c = "failed" /\ a \in failed
        \/ c = "candidate" /\ a \in Range(list) \ (Range(working) \cup failed)}

C15_Now(a) == C15_Classes(a, WORKING_PROXIES, PROXY_LIST, FAILED_PROXIES)

C15_Then(a) == C15_Classes(a, WORKING_PROXIES', PROXY_LIST', FAILED_PROXIES')

C15_Partition == \A a \in Addrs : Cardinality(C15_Now(a)) <= 1

C15_Moves ==
    \A a \in Addrs :
        /\ (C15_Now(a) # {} /\ C15_Then(a) # {} /\ C15_Then(a) # C15_Now(a)) =>
              \/ C15_Now(a) = {"candidate"} /\ C15_Then(a) \in {{"working"}, {"failed"}}
              \/ C15_Now(a) = {"working"} /\ C15_Then(a) = {"failed"}
        /\ a \in FAILED_PROXIES =>
              a \in FAILED_PROXIES' /\ (a \in Range(WORKING_PROXIES') => a \in Range(WORKING_PROXIES))

\* C15 as claimed: candidate, working and failed are disjoint and an address
\* only moves candidate->working, candidate->failed or working->failed
C15_OneWayClassification == [][C15_Moves]_vars /\ []C15_Partition

(***************************************************************************)
(* C16.  A request that missed the cache less than 3600 s after the last   *)
(* refresh (last_proxy_fetch) while PROXY_LIST is not empty goes straight  *)
(* to its first attempt: it awaits neither the sources nor a probe, and    *)
(* the pool and the refresh time are unchanged.  A request past its        *)
(* refresh never fetches or probes again.                                  *)
(***************************************************************************)
C16_Step ==
    \A p \in Procs :
        /\ ( /\ Arrives(p)
             /\ resp'.op # "hit"
             /\ now - last_proxy_fetch < 3600
             /\ PROXY_LIST # <<>> ) =>
                /\ pc'[p] = "extracting"
                /\ upd' = upd
                /\ UNCHANGED poolVars
        /\ pc[p] \in {"extracting", "sleeping"} => pc'[p] \notin {"fetching", "probing"}

\* C16: refresh within the interval and with candidates is a no-op
C16_RefreshNoOp == [][C16_Step]_vars

\* a request just swept an expired entry, found the pool refreshed 1800 s
\* ago and started its first attempt at once
C16_Witness ==
    /\ pc[1] = "extracting"
    /\ attempt[1] = 0
    /\ resp.op = "none"
    /\ resp.removed = 1
    /\ PROXY_LIST # <<>>
    /\ now - last_proxy_fetch = 1800

(***************************************************************************)
(* C17.  As claimed: whenever no refresh is under way, PROXY_LIST holds no *)
(* address twice and WORKING_PROXIES holds only addresses among the first  *)
(* 10 of PROXY_LIST, so at most 10, whatever refreshes ran concurrently.   *)
(***************************************************************************)
C17_Prefix == SubSeq(PROXY_LIST, 1, Min(Len(PROXY_LIST), 10))

\* C17 as claimed: after refreshes the working addresses are probed members
\* of the first 10 candidates
C17_WorkingWithinCandidates ==
    (\A p \in Procs : pc[p] # "probing") =>
        /\ Cardinality(Range(PROXY_LIST)) = Len(PROXY_LIST)
        /\ Range(WORKING_PROXIES) \subseteq Range(C17_Prefix)
        /\ Len(WORKING_PROXIES) <= 10

(***************************************************************************)
(* C18.  A request that finds no live entry for its id goes on to its own  *)
(* extraction, another request for the same id being under way or not; a   *)
(* request under way is ended by the return of its own extractor call      *)
(* only; and the step in which an attempt succeeds leaves the cache with   *)
(* the entry of that request for its id, the entry it found there being    *)
(* replaced, and with the entries of the other ids as they were.           *)
(***************************************************************************)
C18_Step ==
    \A p \in Procs :
        /\ (Arrives(p) /\ ~C2_Live(ArrivedId(p))) =>
              /\ resp'.op # "hit"
              /\ pc'[p] \in {"fetching", "extracting"}
        /\ (pc[p] # "idle" /\ pc'[p] = "idle") =>
              /\ pc[p] = "extracting"
              /\ resp'.proc = p
              /\ resp'.op \in {"fetched", "error"}
        /\ (resp'.op = "fetched" /\ resp'.proc = p) =>
              LET id == video_id[p] IN
              /\ resp'.id = id
              /\ DOMAIN CACHE' = DOMAIN CACHE \cup {id}
              /\ CACHE'[id] = <<current_time[p], resp'.data, C1_TtlOf(resp'.data)>>
              /\ resp'.prev = IF id \in DOMAIN CACHE THEN <<CACHE[id]>> ELSE <<>>
              /\ \A other \in DOMAIN CACHE \ {id} : CACHE'[other] = CACHE[other]

\* C18: concurrent misses of one id each extract, and the last store is the
\* entry the cache holds
C18_LastWriteWins == [][C18_Step]_vars

\* a store just replaced the entry another request had stored for the same
\* id, with another payload
C18_Witness ==
    /\ resp.op = "fetched"
    /\ resp.prev # <<>>
    /\ resp.prev[1][2] # resp.data
    /\ resp.id \in DOMAIN CACHE
    /\ CACHE[resp.id][2] = resp.data

(***************************************************************************)
(* C20.  As claimed: the entry a store replaces is not younger than the    *)
(* entry stored, so with the same ttl its expiry is not later.             *)
(***************************************************************************)
\* C20 as claimed: a replacing entry's insertedAt is not earlier than the
\* replaced entry's
C20_InsertedAtMonotone ==
    (resp.op = "fetched" /\ resp.prev # <<>>) =>
        /\ resp.prev[1][1] <= CACHE[resp.id][1]
        /\ resp.prev[1][3] = CACHE[resp.id][3] =>
              resp.prev[1][1] + resp.prev[1][3] <= CACHE[resp.id][1] + CACHE[resp.id][3]

(***************************************************************************)
(* C19.  As claimed: no other thread changes the cache between the steps   *)
(* of a sweep, a delete or a listing, so a sweep finds in the cache every  *)
(* id it collected, a delete finds the id it tested, and no request ends   *)
(* in an uncaught exception.                                               *)
(***************************************************************************)
\* C19 as claimed: sweep, delete and list are never preempted, so a sweep
\* never deletes an id that is gone
C19_NeverPreempted ==
    /\ \A a \in Procs \cup Threads : Range(cln[a].expired) \subseteq DOMAIN CACHE
    /\ \A t \in Threads : thr[t].pc = "del" => thr[t].id \in DOMAIN CACHE
    /\ resp.op # "crash"

====
